---- MODULE Spec2Model ----
(***************************************************************************)
(* Model of athena_mcp_server.py: the four tools, the lazily created       *)
(* client and the submit / poll / fetch / format cycle of                  *)
(* _execute_query_internal.                                                *)
(*                                                                         *)
(* A Python string is modelled as the sequence of the pieces it is built   *)
(* from (the literal segments of the f-strings and the interpolated        *)
(* values); "text contains s" is "s is one of the pieces".                 *)
(***************************************************************************)
EXTENDS Integers, Sequences, FiniteSets, TLC

\* ------------------------------------------------------------------ bounds
\* Largest number of rows (header included) a fetched result set has.
MaxRows == 13
\* Largest number of cells in a row.
MaxCols == 2

\* ------------------------------------------------------- program constants
DATABASE_NAME == "drm_text2sql_db"
OUTPUT_LOCATION == "s3://glab-drm-query-results/"
max_attempts == 30
\* rows[1:11]: the slice of data rows that is rendered.
PreviewEnd == 11
\* get_table_sample(table_name, limit = 10)
DefaultLimit == 10

\* ------------------------------------------------------- the environment
TableNames == {"orders"}
Limits == {5}
UserQueries == {<<"SELECT 1">>}
UserLocations == {OUTPUT_LOCATION, "s3://other/"}
Handles == {"qid-1", "qid-2"}
States == {"QUEUED", "RUNNING", "SUCCEEDED", "FAILED", "CANCELLED", "UNKNOWN"}
Reasons == {"SYNTAX_ERROR: line 1:8"}
\* Faults the remote service (or the SDK) raises: an exception class and
\* the text str(e) gives.
Faults ==
  { [class |-> "ClientError", text |-> "AccessDeniedException"],
    [class |-> "EndpointConnectionError", text |-> "Could not connect"] }
KeyErrorVarChar == [class |-> "KeyError", text |-> "'VarCharValue'"]
NoFault == [class |-> "", text |-> ""]
ExceptionClasses == {"ClientError", "EndpointConnectionError", "KeyError"}

\* A Datum of a result row: a dict that has the key VarCharValue, or not.
Cell(v) == [present |-> TRUE, VarCharValue |-> v]
NullCell == [present |-> FALSE, VarCharValue |-> ""]
\* The Status dict of get_query_execution.
StatusDict(s, hasReason, r) == [State |-> s, hasReason |-> hasReason, StateChangeReason |-> r]
NoStatus == StatusDict("", FALSE, "")
StatusResponses ==
  { StatusDict(s, FALSE, "") : s \in States } \cup
  { StatusDict(s, TRUE, r) : s \in {"FAILED", "CANCELLED", "RUNNING"}, r \in Reasons }

\* The value of cell c of row r when it is not null (row 1 is the header).
CellText(r, c) ==
  IF r = 1 THEN "col" \o ToString(c) ELSE "v" \o ToString(r - 1) \o "." \o ToString(c)
\* A result set of n rows and w columns; `nulls` is the set of <<r, c>> whose
\* Datum carries no VarCharValue.
MakeRows(n, w, nulls) ==
  [r \in 1..n |-> [Data |-> [c \in 1..w |->
      IF <<r, c>> \in nulls THEN NullCell ELSE Cell(CellText(r, c))]]]
\* The result sets get_query_results may give: up to MaxRows rows of up to
\* MaxCols cells, with at most one null cell.
ResultSets ==
  { MakeRows(n, w, {}) : n \in 0..MaxRows, w \in 1..MaxCols } \cup
  UNION { { MakeRows(n, w, {<<r, c>>}) : r \in 1..n, c \in 1..w } :
          n \in 1..MaxRows, w \in 1..MaxCols }

\* ------------------------------------------------------------ pure helpers
\* sep.join(values), as the sequence of its pieces.
RECURSIVE Join(_, _)
Join(values, sep) ==
  IF Len(values) = 0 THEN <<>>
  ELSE IF Len(values) = 1 THEN <<values[1]>>
  ELSE <<values[1], sep>> \o Join(Tail(values), sep)

\* Mutant of GetVarChar: the default is the empty string.
GetVarChar_EmptyDefault(col) == IF col.present THEN col.VarCharValue ELSE ""

\* col.get('VarCharValue', 'NULL')
GetVarChar(col) == IF col.present THEN col.VarCharValue ELSE "NULL"

\* Mutant of GetReason: no default for an absent reason.
GetReason_NoDefault(st) == st.StateChangeReason

\* Status.get('StateChangeReason', 'Unknown error')
GetReason(st) == IF st.hasReason THEN st.StateChangeReason ELSE "Unknown error"

\* rows[a:b] of Python (0-based, end exclusive) on a 1-based sequence.
Slice(s, a, b) ==
  LET hi == IF b < Len(s) THEN b ELSE Len(s)
  IN  IF a >= hi THEN <<>> ELSE [i \in 1..(hi - a) |-> s[a + i]]

\* [col['VarCharValue'] for col in rows[0]['Data']] raises KeyError when a
\* header Datum has no VarCharValue.
HeaderRaises(rows) == \E c \in DOMAIN rows[1].Data : ~rows[1].Data[c].present
Headers(rows) == [c \in DOMAIN rows[1].Data |-> rows[1].Data[c].VarCharValue]

\* One rendered data row: ' | '.join(values) followed by a newline.
RowLine(row) ==
  Join([c \in DOMAIN row.Data |-> GetVarChar(row.Data[c])], " | ") \o <<"\n">>

RECURSIVE RowLines(_)
RowLines(rs) == IF Len(rs) = 0 THEN <<>> ELSE RowLine(rs[1]) \o RowLines(Tail(rs))

\* Mutant of PreviewRows: the slice ends one row early (rows[1:10]).
PreviewRows_OneShort(rows) == Slice(rows, 1, PreviewEnd - 1)

\* The rows that are rendered: rows[1:11].
PreviewRows(rows) == Slice(rows, 1, PreviewEnd)

\* Mutant of MoreSuffix: the test is len(rows) >= 11.
MoreSuffix_Inclusive(rows) ==
  IF Len(rows) >= PreviewEnd
  THEN <<"\n... and ", ToString(Len(rows) - PreviewEnd), " more rows">>
  ELSE <<>>

\* if len(rows) > 11: "\n... and {len(rows)-11} more rows"
MoreSuffix(rows) ==
  IF Len(rows) > PreviewEnd
  THEN <<"\n... and ", ToString(Len(rows) - PreviewEnd), " more rows">>
  ELSE <<>>

NoResultsText == <<"Query executed successfully but returned no results.">>

\* Mutant of ReportText: the count stated is the number of rows rendered.
ReportText_PreviewCount(rows) ==
  <<"Query executed successfully!\n\n">>
  \o <<"Columns: ">> \o Join(Headers(rows), ", ") \o <<"\n\n">>
  \o <<"Results (", ToString(Len(PreviewRows(rows))), " rows):\n">>
  \o RowLines(PreviewRows(rows))
  \o MoreSuffix(rows)

\* The text built on SUCCEEDED from a non-empty result set with a readable header.
ReportText(rows) ==
  <<"Query executed successfully!\n\n">>
  \o <<"Columns: ">> \o Join(Headers(rows), ", ") \o <<"\n\n">>
  \o <<"Results (", ToString(Len(rows) - 1), " rows):\n">>
  \o RowLines(PreviewRows(rows))
  \o MoreSuffix(rows)

FailedText(st) == <<"Query failed: ", GetReason(st)>>
TimeoutText(s) ==
  <<"Query timed out after ", ToString(max_attempts), " seconds. Status: ", s>>
\* Mutant of CancelledText: the CANCELLED branch is missing and the state
\* falls through to the timeout message.
CancelledText_AsTimeout == TimeoutText("CANCELLED")

CancelledText == <<"Query was cancelled.">>
\* f"Error: {str(e)}\n{traceback.format_exc()}"
ErrorText(e) == <<"Error: ", e.text, "\n", "Traceback (most recent call last): ...">>

\* Mutant of IsTerminal: CANCELLED does not end the loop.
IsTerminal_NoCancelled(s) == s \in {"SUCCEEDED", "FAILED"}

\* status in ['SUCCEEDED', 'FAILED', 'CANCELLED']
IsTerminal(s) == s \in {"SUCCEEDED", "FAILED", "CANCELLED"}

\* Mutant of IsSucceeded: FAILED takes the SUCCEEDED branch too.
IsSucceeded_OrFailed(s) == s \in {"SUCCEEDED", "FAILED"}

\* if status == 'SUCCEEDED'
IsSucceeded(s) == s = "SUCCEEDED"

\* Mutant of IsEmpty: a result set with no data row counts as empty.
IsEmpty_NoDataRows(rows) == Len(rows) <= 1

\* if not rows
IsEmpty(rows) == Len(rows) = 0

\* Mutant of InternalCatches: the clause is `except KeyError`.
InternalCatches_KeyErrorOnly(e) == e.class = "KeyError"

\* `except Exception` of _execute_query_internal: every fault that occurs is
\* an Exception.
InternalCatches(e) == e.class \in ExceptionClasses
\* list_tables, describe_table and get_table_sample wrap the call in their
\* own try / except Exception; execute_athena_query does not.
ToolCatches(t, e) == t # "execute_athena_query" /\ e.class \in ExceptionClasses

Returned(text) == [kind |-> "returned", text |-> text]
Raised(e) == [kind |-> "raised", text |-> <<e.text>>]
NoResult == [kind |-> "none", text |-> <<>>]

\* _athena_client = None
None == 0
\* The threads of the host that run tool calls at the same time.
Threads == {"t1", "t2"}
\* query_execution_id before the submission.
NoHandle == 0
\* The arguments of a tool call: the table name, and the limit when given.
Args(t, given, l) == [table_name |-> t, limit_given |-> given, limit |-> l]
NoArgs == Args("", FALSE, 0)
NoRequest == [QueryString |-> <<>>, Database |-> "", OutputLocation |-> ""]
\* The states after which the service reports no further transition.
TerminalStates == {"SUCCEEDED", "FAILED", "CANCELLED"}
\* One remote call as the service sees it: the operation, the handle it
\* names and how it ended ("ok", "raised", or for a status poll "terminal" /
\* "nonterminal" after the state it reported).
Call(op, id, out) == [op |-> op, id |-> id, out |-> out]
Observed(s) == IF s \in TerminalStates THEN "terminal" ELSE "nonterminal"

\* ------------------------------------------------------------------- state
VARIABLES
  pc,                \* position of the invocation
  tool,              \* the public function invoked
  args,              \* the arguments the tool was called with
  query,             \* the statement (pieces of the string)
  output_location,
  _athena_client,    \* module global: None or the client
  clientsCreated,    \* how many times boto3.client was completed
  client,            \* local of _execute_query_internal
  query_execution_id,
  attempt,
  status,            \* local `status`
  query_status,      \* the Status dict of the last poll
  rows,              \* local `rows`
  exc,               \* the exception in flight
  result,            \* what the public function gave its caller
  request,           \* the arguments of start_query_execution
  calls,             \* remote calls of this invocation, in order
  sleeps,            \* time.sleep calls of this invocation
  \* Invocations the host runs at the same time, one per thread; each has
  \* its own frame of get_athena_client and _execute_query_internal.
  th_pc,             \* position of each thread
  th_new,            \* the client boto3.client gave the thread, not yet stored
  th_client,         \* local `client`
  th_qid,            \* local `query_execution_id`
  th_attempt,        \* local `attempt`
  th_status,         \* local `status`
  th_result,         \* what the tool gave its caller
  th_calls,          \* the remote calls the thread made
  remote             \* the service: the queries submitted, by handle

\* The threads' frames and the service.
concVars == <<th_pc, th_new, th_client, th_qid, th_attempt, th_status, th_result,
              th_calls, remote>>
\* The frame of the invocation that runs alone.
seqVars == <<pc, tool, args, query, output_location, client, query_execution_id, attempt,
             status, query_status, rows, exc, result, request, calls, sleeps>>

vars == <<pc, tool, args, query, output_location, _athena_client, clientsCreated, client,
          query_execution_id, attempt, status, query_status, rows, exc, result,
          request, calls, sleeps, th_pc, th_new, th_client, th_qid, th_attempt,
          th_status, th_result, th_calls, remote>>

Init ==
  /\ pc = "idle"
  /\ tool = ""
  /\ args = NoArgs
  /\ query = <<>>
  /\ output_location = ""
  /\ _athena_client = None
  /\ clientsCreated = 0
  /\ client = None
  /\ query_execution_id = ""
  /\ attempt = 0
  /\ status = ""
  /\ query_status = NoStatus
  /\ rows = <<>>
  /\ exc = NoFault
  /\ result = NoResult
  /\ request = NoRequest
  /\ calls = <<>>
  /\ sleeps = 0
  /\ th_pc = [t \in Threads |-> "idle"]
  /\ th_new = [t \in Threads |-> None]
  /\ th_client = [t \in Threads |-> None]
  /\ th_qid = [t \in Threads |-> NoHandle]
  /\ th_attempt = [t \in Threads |-> 0]
  /\ th_status = [t \in Threads |-> ""]
  /\ th_result = [t \in Threads |-> NoResult]
  /\ th_calls = [t \in Threads |-> {}]
  /\ remote = <<>>

\* ----------------------------------------------------------------- the tools
\* A tool is invoked: the locals of a fresh call of _execute_query_internal.
Begin(t, a, q, loc) ==
  /\ pc' = "get_client"
  /\ tool' = t
  /\ args' = a
  /\ query' = q
  /\ output_location' = loc
  /\ client' = None
  /\ query_execution_id' = ""
  /\ attempt' = 0
  /\ status' = ""
  /\ query_status' = NoStatus
  /\ rows' = <<>>
  /\ exc' = NoFault
  /\ result' = NoResult
  /\ request' = NoRequest
  /\ calls' = <<>>
  /\ sleeps' = 0
  /\ UNCHANGED <<_athena_client, clientsCreated>>
  /\ UNCHANGED concVars

\* f"SHOW TABLES IN {DATABASE_NAME}"
ListTablesQuery == <<"SHOW TABLES IN ", DATABASE_NAME>>

\* Mutant of DescribeQuery: the database prefix is left out.
DescribeQuery_NoDatabase(t) == <<"DESCRIBE ", t>>

\* f"DESCRIBE {DATABASE_NAME}.{table_name}"
DescribeQuery(t) == <<"DESCRIBE ", DATABASE_NAME, ".", t>>
\* f"SELECT * FROM {DATABASE_NAME}.{table_name} LIMIT {limit}"
SampleQuery(t, l) == <<"SELECT * FROM ", DATABASE_NAME, ".", t, " LIMIT ", ToString(l)>>

\* No invocation is in progress.
Idle == pc \in {"idle", "done"}

execute_athena_query ==
  /\ Idle
  /\ \E q \in UserQueries, loc \in UserLocations :
       Begin("execute_athena_query", NoArgs, q, loc)

list_tables ==
  /\ Idle
  /\ Begin("list_tables", NoArgs, ListTablesQuery, OUTPUT_LOCATION)

describe_table ==
  /\ Idle
  /\ \E t \in TableNames :
       Begin("describe_table", Args(t, FALSE, 0), DescribeQuery(t), OUTPUT_LOCATION)

\* limit is the caller's value, or the default when the caller gives none.
get_table_sample ==
  /\ Idle
  /\ \E t \in TableNames, given \in BOOLEAN, l \in Limits :
       Begin("get_table_sample", Args(t, given, IF given THEN l ELSE 0),
             SampleQuery(t, IF given THEN l ELSE DefaultLimit), OUTPUT_LOCATION)

\* ------------------------------------------------- _execute_query_internal
\* Mutant of Raise: the exception is swallowed and the submission retried.
Raise_Retry(e) ==
  /\ exc' = e
  /\ pc' = "submit"

\* An exception is raised inside the try block.
Raise(e) ==
  /\ exc' = e
  /\ pc' = "except"

\* client = get_athena_client(): the global is created on first use;
\* boto3.client may itself raise.
get_athena_client ==
  /\ pc = "get_client"
  /\ IF _athena_client = None
     THEN \/ /\ _athena_client' = clientsCreated + 1
             /\ clientsCreated' = clientsCreated + 1
             /\ client' = clientsCreated + 1
             /\ pc' = "submit"
             /\ exc' = exc
          \/ /\ \E f \in Faults : Raise(f)
             /\ UNCHANGED <<_athena_client, clientsCreated, client>>
     ELSE /\ client' = _athena_client
          /\ pc' = "submit"
          /\ UNCHANGED <<_athena_client, clientsCreated, exc>>
  /\ UNCHANGED <<tool, args, query, output_location, query_execution_id, attempt, status,
                 query_status, rows, result, request, calls, sleeps>>
  /\ UNCHANGED concVars

\* Mutant of LoopTest: the test is attempt <= max_attempts.
LoopTest_Inclusive(a) == IF a <= max_attempts THEN "poll" ELSE "decide"

\* Mutant of LoopTest: the loop body is never entered.
LoopTest_Never(a) == "decide"

\* while attempt < max_attempts
LoopTest(a) == IF a < max_attempts THEN "poll" ELSE "decide"

\* client.start_query_execution(...); query_execution_id = response[...];
\* attempt = 0
start_query_execution ==
  /\ pc = "submit"
  /\ request' = [QueryString |-> query, Database |-> DATABASE_NAME,
                  OutputLocation |-> output_location]
  /\ \/ \E h \in Handles :
          /\ calls' = Append(calls, Call("start_query_execution", h, "ok"))
          /\ query_execution_id' = h
          /\ attempt' = 0
          /\ pc' = LoopTest(0)
          /\ exc' = exc
     \/ /\ calls' = Append(calls, Call("start_query_execution", "", "raised"))
        /\ \E f \in Faults : Raise(f)
        /\ UNCHANGED <<query_execution_id, attempt>>
  /\ UNCHANGED <<tool, args, query, output_location, _athena_client, clientsCreated, client,
                 status, query_status, rows, result, sleeps>>
  /\ UNCHANGED concVars

\* One pass of the loop up to the break test: get_query_execution and the
\* read of the state.
get_query_execution ==
  /\ pc = "poll"
  /\ \/ \E st \in StatusResponses :
          /\ calls' = Append(calls, Call("get_query_execution", query_execution_id,
                                         Observed(st.State)))
          /\ query_status' = st
          /\ status' = st.State
          /\ pc' = IF IsTerminal(st.State) THEN "decide" ELSE "sleep"
          /\ exc' = exc
     \/ /\ calls' = Append(calls, Call("get_query_execution", query_execution_id,
                                        "raised"))
        /\ \E f \in Faults : Raise(f)
        /\ UNCHANGED <<query_status, status>>
  /\ UNCHANGED <<tool, args, query, output_location, _athena_client, clientsCreated, client,
                 query_execution_id, attempt, rows, result, request, sleeps>>
  /\ UNCHANGED concVars

\* time.sleep(1); attempt += 1; back to the loop test.
sleep ==
  /\ pc = "sleep"
  /\ sleeps' = sleeps + 1
  /\ attempt' = attempt + 1
  /\ pc' = LoopTest(attempt + 1)
  /\ UNCHANGED <<tool, args, query, output_location, _athena_client, clientsCreated, client,
                 query_execution_id, status, query_status, rows, exc, result, request,
                 calls>>
  /\ UNCHANGED concVars

\* The function returns `text`; the tool hands it to its caller.
Return(text) ==
  /\ result' = Returned(text)
  /\ pc' = "done"

\* if status == 'SUCCEEDED': fetch the results and format them.
get_query_results ==
  /\ pc = "decide"
  /\ IsSucceeded(status)
  /\ \/ \E rs \in ResultSets :
          /\ calls' = Append(calls, Call("get_query_results", query_execution_id, "ok"))
          /\ rows' = rs
          /\ IF IsEmpty(rs)
             THEN Return(NoResultsText) /\ exc' = exc
             ELSE IF HeaderRaises(rs)
             THEN Raise(KeyErrorVarChar) /\ result' = result
             ELSE Return(ReportText(rs)) /\ exc' = exc
     \/ /\ calls' = Append(calls, Call("get_query_results", query_execution_id,
                                        "raised"))
        /\ \E f \in Faults : Raise(f)
        /\ UNCHANGED <<rows, result>>
  /\ UNCHANGED <<tool, args, query, output_location, _athena_client, clientsCreated, client,
                 query_execution_id, attempt, status, query_status, request, sleeps>>
  /\ UNCHANGED concVars

\* elif status == 'FAILED'
return_failed ==
  /\ pc = "decide"
  /\ ~IsSucceeded(status)
  /\ status = "FAILED"
  /\ Return(FailedText(query_status))
  /\ UNCHANGED <<tool, args, query, output_location, _athena_client, clientsCreated, client,
                 query_execution_id, attempt, status, query_status, rows, exc, request,
                 calls, sleeps>>
  /\ UNCHANGED concVars

\* elif status == 'CANCELLED'
return_cancelled ==
  /\ pc = "decide"
  /\ ~IsSucceeded(status)
  /\ status # "FAILED"
  /\ status = "CANCELLED"
  /\ Return(CancelledText)
  /\ UNCHANGED <<tool, args, query, output_location, _athena_client, clientsCreated, client,
                 query_execution_id, attempt, status, query_status, rows, exc, request,
                 calls, sleeps>>
  /\ UNCHANGED concVars

\* else: the timeout message
return_timeout ==
  /\ pc = "decide"
  /\ ~IsSucceeded(status)
  /\ status \notin {"FAILED", "CANCELLED"}
  /\ Return(TimeoutText(status))
  /\ UNCHANGED <<tool, args, query, output_location, _athena_client, clientsCreated, client,
                 query_execution_id, attempt, status, query_status, rows, exc, request,
                 calls, sleeps>>
  /\ UNCHANGED concVars

\* What the tool gives its caller when `e` is raised inside the try block of
\* _execute_query_internal: the except clause there turns it into text;
\* what it does not catch reaches the tool, whose own except clause (if it
\* has one) does the same.
Handle(t, e) ==
  IF InternalCatches(e) THEN Returned(ErrorText(e))
  ELSE IF ToolCatches(t, e) THEN Returned(ErrorText(e))
  ELSE Raised(e)

except_handler ==
  /\ pc = "except"
  /\ result' = Handle(tool, exc)
  /\ pc' = "done"
  /\ UNCHANGED <<tool, args, query, output_location, _athena_client, clientsCreated, client,
                 query_execution_id, attempt, status, query_status, rows, exc, request,
                 calls, sleeps>>
  /\ UNCHANGED concVars

Next ==
  \/ execute_athena_query
  \/ list_tables
  \/ describe_table
  \/ get_table_sample
  \/ get_athena_client
  \/ start_query_execution
  \/ get_query_execution
  \/ sleep
  \/ get_query_results
  \/ return_failed
  \/ return_cancelled
  \/ return_timeout
  \/ except_handler

Spec == Init /\ [][Next]_vars

\* ------------------------------------------------ reading a run and a text
\* `text` contains the piece s.
Contains(text, s) == \E i \in DOMAIN text : text[i] = s

\* The remote calls of the invocation that name operation op.
CallsOf(op) == { i \in DOMAIN calls : calls[i].op = op }
Submissions == Cardinality(CallsOf("start_query_execution"))
Polls == Cardinality(CallsOf("get_query_execution"))
Fetches == Cardinality(CallsOf("get_query_results"))
\* The k-th status poll of the invocation (k in 1..Polls): the submission
\* is call 1 and only polls follow it until the fetch.
PollAt(k) == calls[k + 1]

\* The invocation is over and the tool has handed its caller a value.
Done == pc = "done"
\* The remote service raised in the last remote call made.
FaultIn(op) ==
  /\ Len(calls) > 0
  /\ calls[Len(calls)].op = op
  /\ calls[Len(calls)].out = "raised"
SubmissionOk == Len(calls) > 0 /\ calls[1] = Call("start_query_execution", calls[1].id, "ok")

\* --------------------------------------------------------------------- C1
\* C1: whichever tool is invoked, when the remote service raises during the
\* submission, a status poll or the result fetch, the tool does not raise:
\* it returns a string, and the string contains the text of the fault.
C1_FaultsBecomeText ==
  /\ Done => result.kind = "returned"
  /\ \A op \in {"start_query_execution", "get_query_execution", "get_query_results"} :
       (Done /\ FaultIn(op)) =>
          /\ exc \in Faults
          /\ result.kind = "returned"
          /\ Contains(result.text, exc.text)

\* execute_athena_query (the tool with no try block of its own) returned the
\* text of a fault raised by a status poll that followed other polls.
C1_Witness ==
  /\ Done
  /\ tool = "execute_athena_query"
  /\ FaultIn("get_query_execution")
  /\ Polls > 2
  /\ result = Returned(ErrorText(exc))
  /\ exc \in Faults

\* --------------------------------------------------------------------- C2
\* The first max_attempts status polls were made and none reported a terminal
\* state or raised.
ThirtyNonTerminalPolls ==
  /\ SubmissionOk
  /\ Polls >= max_attempts
  /\ \A k \in 1..max_attempts : PollAt(k).out = "nonterminal"

\* C2: when the submission succeeds and none of the first 30 status polls
\* reports SUCCEEDED, FAILED or CANCELLED, the invocation makes exactly 30
\* polls and no fetch, and what it returns mentions the timeout and contains
\* the state the 30th poll reported.
C2_Timeout ==
  ThirtyNonTerminalPolls =>
    /\ Polls = max_attempts
    /\ Fetches = 0
    /\ pc \in {"sleep", "decide", "done"}
    /\ ~IsTerminal(query_status.State)
    /\ Done =>
         /\ result.kind = "returned"
         /\ Contains(result.text, "Query timed out after ")
         /\ result.text[Len(result.text)] = query_status.State

C2_Witness ==
  /\ Done
  /\ ThirtyNonTerminalPolls
  /\ query_status.State = "QUEUED"
  /\ result = Returned(<<"Query timed out after ", "30", " seconds. Status: ", "QUEUED">>)

\* --------------------------------------------------------------------- C3
\* Some status poll of the invocation reported a terminal state.
TerminalSeen == \E i \in DOMAIN calls : calls[i].out = "terminal"
FirstTerminal == CHOOSE i \in DOMAIN calls : calls[i].out = "terminal"
                   /\ \A j \in 1..(i - 1) : calls[j].out # "terminal"

\* C3: once a status poll has reported SUCCEEDED, FAILED or CANCELLED, the
\* invocation makes no further poll and no further sleep (every sleep
\* follows a non-terminal poll), and its outcome is the one of that state.
C3_PollingStops ==
  TerminalSeen =>
    /\ \A j \in CallsOf("get_query_execution") : j <= FirstTerminal
    /\ sleeps = Polls - 1
    /\ pc \in {"decide", "except", "done"}
    /\ status = query_status.State
    /\ (Done /\ status = "FAILED") => result = Returned(FailedText(query_status))
    /\ (Done /\ status = "CANCELLED") => result = Returned(CancelledText)
    /\ (Done /\ status = "SUCCEEDED") => Fetches = 1

\* CANCELLED was reported by the third poll and the invocation is over.
C3_Witness ==
  /\ Done
  /\ TerminalSeen
  /\ Polls = 3
  /\ sleeps = 2
  /\ status = "CANCELLED"

\* --------------------------------------------------------------------- C4
\* The last status poll reported FAILED.
FailedSeen ==
  /\ Polls >= 1
  /\ PollAt(Polls).out = "terminal"
  /\ query_status.State = "FAILED"

\* C4: when the terminal state observed is FAILED, at whichever of the 30
\* polls, the invocation returns (does not raise) a string containing the
\* reason of that status response, or "Unknown error" when it has none, and
\* makes no result fetch.
C4_Failed ==
  FailedSeen =>
    /\ Fetches = 0
    /\ pc \in {"decide", "done"}
    /\ Done =>
         /\ result.kind = "returned"
         /\ Contains(result.text, "Query failed: ")
         /\ IF query_status.hasReason
            THEN Contains(result.text, query_status.StateChangeReason)
            ELSE Contains(result.text, "Unknown error")

\* FAILED with no reason was reported by the 30th poll.
C4_Witness ==
  /\ Done
  /\ FailedSeen
  /\ Polls = max_attempts
  /\ ~query_status.hasReason
  /\ result = Returned(<<"Query failed: ", "Unknown error">>)

\* --------------------------------------------------------------------- C5
\* The last status poll reported CANCELLED.
CancelledSeen ==
  /\ Polls >= 1
  /\ PollAt(Polls).out = "terminal"
  /\ query_status.State = "CANCELLED"

\* C5: when the terminal state observed is CANCELLED, the invocation returns
\* the fixed message "Query was cancelled.", whatever the number of
\* non-terminal polls before it and whatever reason the response carries.
C5_Cancelled ==
  (Done /\ CancelledSeen) => result = Returned(<<"Query was cancelled.">>)

\* CANCELLED with a reason was reported after 29 non-terminal polls.
C5_Witness ==
  /\ Done
  /\ CancelledSeen
  /\ Polls = max_attempts
  /\ sleeps = max_attempts - 1
  /\ query_status.hasReason
  /\ result = Returned(<<"Query was cancelled.">>)

\* ------------------------------------------------------- reading a report
\* The result fetch returned a result set (now in `rows`) and the
\* invocation is over.
FetchedOk ==
  /\ Done
  /\ Len(calls) > 0
  /\ calls[Len(calls)].op = "get_query_results"
  /\ calls[Len(calls)].out = "ok"
\* Every cell of the header row carries a column name.
HeaderNamed(rs) == \A c \in DOMAIN rs[1].Data : rs[1].Data[c].present
\* The number of data rows of the fetched result set.
DataRows == Len(rows) - 1

IsReport(text) == Contains(text, "Results (")
ResultsAt(text) == CHOOSE i \in DOMAIN text : text[i] = "Results ("
\* The count the report states: the piece after "Results (".
StatedCount(text) == text[ResultsAt(text) + 1]
HasSuffix(text) == Contains(text, "\n... and ")
SuffixAt(text) == CHOOSE i \in DOMAIN text : text[i] = "\n... and "
\* The pieces between the "Results (N rows):" line and the suffix.
ListedPart(text) ==
  SubSeq(text, ResultsAt(text) + 3,
         IF HasSuffix(text) THEN SuffixAt(text) - 1 ELSE Len(text))
\* The lines of a sequence of pieces, each line ended by a "\n" piece.
RECURSIVE SplitLines(_, _)
SplitLines(ps, cur) ==
  IF Len(ps) = 0 THEN (IF Len(cur) = 0 THEN <<>> ELSE <<cur>>)
  ELSE IF ps[1] = "\n" THEN <<cur>> \o SplitLines(Tail(ps), <<>>)
  ELSE SplitLines(Tail(ps), Append(cur, ps[1]))
\* The data rows the report lists, each the sequence of its pieces.
ListedRows(text) == SplitLines(ListedPart(text), <<>>)
\* The cells of a listed row: the pieces between the " | " separators.
Cells(line) == [k \in 1..((Len(line) + 1) \div 2) |-> line[2 * k - 1]]
WellJoined(line) == \A k \in 1..(Len(line) \div 2) : line[2 * k] = " | "
\* The last three pieces of the text.
Ending(text) == SubSeq(text, Len(text) - 2, Len(text))

\* --------------------------------------------------------------------- C6
\* C6 as stated: for a SUCCEEDED result set that is only the header row, the
\* output states "returned no results".
C6_HeaderOnlySaysNoResults ==
  (FetchedOk /\ Len(rows) = 1 /\ HeaderNamed(rows)) =>
    Contains(result.text, "Query executed successfully but returned no results.")

\* C6 as amended: the output states "returned no results" for a SUCCEEDED
\* result set with no row at all; for one that is only the header row (of
\* column names) the output is the report, with the column names, a stated
\* count of 0 and no data row listed.
C6_HeaderOnlyIsReport ==
  /\ (FetchedOk /\ Len(rows) = 0) =>
        result = Returned(<<"Query executed successfully but returned no results.">>)
  /\ (FetchedOk /\ Len(rows) = 1 /\ HeaderNamed(rows)) =>
        /\ result.kind = "returned"
        /\ ~Contains(result.text, "Query executed successfully but returned no results.")
        /\ IsReport(result.text)
        /\ \A c \in DOMAIN rows[1].Data :
             Contains(result.text, rows[1].Data[c].VarCharValue)
        /\ StatedCount(result.text) = "0"
        /\ ListedRows(result.text) = <<>>
        /\ ~HasSuffix(result.text)

\* A header-only result set of two columns gave the report with 0 rows.
C6_Witness ==
  /\ FetchedOk
  /\ Len(rows) = 1
  /\ result = Returned(<<"Query executed successfully!\n\n", "Columns: ", "col1", ", ",
                         "col2", "\n\n", "Results (", "0", " rows):\n">>)

\* --------------------------------------------------------------------- C7
\* C7: for a SUCCEEDED result set of a header row (of column names) and
\* N > 10 data rows, the output lists exactly 10 data rows and ends with the
\* suffix saying that N-10 more rows exist.
C7_Truncated ==
  (FetchedOk /\ Len(rows) >= 1 /\ HeaderNamed(rows) /\ DataRows > 10) =>
    /\ result.kind = "returned"
    /\ IsReport(result.text)
    /\ Len(ListedRows(result.text)) = 10
    /\ Ending(result.text) = <<"\n... and ", ToString(DataRows - 10), " more rows">>

\* Twelve data rows: ten listed and "2 more rows".
C7_Witness ==
  /\ FetchedOk
  /\ DataRows = 12
  /\ result.kind = "returned"
  /\ Len(ListedRows(result.text)) = 10
  /\ Ending(result.text) = <<"\n... and ", "2", " more rows">>

\* --------------------------------------------------------------------- C8
\* C8: for a SUCCEEDED result set of a header row (of column names) and
\* N <= 10 data rows, N = 10 included, the output lists exactly N data rows
\* and has no truncation suffix.
C8_NotTruncated ==
  (FetchedOk /\ Len(rows) >= 1 /\ HeaderNamed(rows) /\ DataRows <= 10) =>
    /\ result.kind = "returned"
    /\ IsReport(result.text)
    /\ Len(ListedRows(result.text)) = DataRows
    /\ ~HasSuffix(result.text)
    /\ ~Contains(result.text, " more rows")

\* Exactly ten data rows: ten listed, no suffix.
C8_Witness ==
  /\ FetchedOk
  /\ DataRows = 10
  /\ result.kind = "returned"
  /\ Len(ListedRows(result.text)) = 10
  /\ ~HasSuffix(result.text)

\* --------------------------------------------------------------------- C9
\* The cells of the fetched result set that have no value, among the rows
\* the report shows: the header and the first ten data rows.
NullCells ==
  { rc \in (1..Len(rows)) \X (1..MaxCols) :
      /\ rc[1] <= 11
      /\ rc[2] \in DOMAIN rows[rc[1]].Data
      /\ ~rows[rc[1]].Data[rc[2]].present }
\* Cell c of data row r (row r + 1 of the result set) is shown as NULL, in
\* its place in its row.
ShownAsNull(r, c) ==
  /\ IsReport(result.text)
  /\ r <= Len(ListedRows(result.text))
  /\ LET line == ListedRows(result.text)[r]
     IN  /\ WellJoined(line)
         /\ Len(Cells(line)) = Len(rows[r + 1].Data)
         /\ Cells(line)[c] = "NULL"

\* C9 as stated: a cell of a SUCCEEDED result set that has no value never
\* turns the result into an error and is shown as NULL (for a header cell:
\* among the column names).
C9_AnyNullCellIsNULL ==
  \A rc \in NullCells :
    FetchedOk =>
      /\ result.kind = "returned"
      /\ ~Contains(result.text, "Error: ")
      /\ IF rc[1] = 1 THEN Contains(result.text, "NULL") ELSE ShownAsNull(rc[1] - 1, rc[2])

\* C9 as amended: a cell with no value in one of the first ten data rows is
\* shown as NULL in its place in its row, neither empty nor left out, and
\* the result is no error; a header cell with no value makes the invocation
\* return the error text of the KeyError instead of a report.
C9_NullDataCellIsNULL ==
  FetchedOk =>
    /\ \A rc \in NullCells :
         (rc[1] > 1 /\ HeaderNamed(rows)) =>
            /\ result.kind = "returned"
            /\ ~Contains(result.text, "Error: ")
            /\ ShownAsNull(rc[1] - 1, rc[2])
    /\ (Len(rows) >= 1 /\ ~HeaderNamed(rows)) =>
         /\ result.kind = "returned"
         /\ result.text[1] = "Error: "
         /\ result.text[2] = "'VarCharValue'"

\* The second cell of the tenth data row has no value and the report shows
\* that row as "v10.1 | NULL".
C9_Witness ==
  /\ FetchedOk
  /\ <<11, 2>> \in NullCells
  /\ result.kind = "returned"
  /\ ListedRows(result.text)[10] = <<"v10.1", " | ", "NULL">>

\* -------------------------------------------------------------------- C10
\* C10 as stated: every invocation (that has obtained the client) makes
\* exactly one submission, one or more status polls and at most one result
\* fetch.
C10_OneSubmitSomePolls ==
  (Done /\ client # None) => (Submissions = 1 /\ Polls >= 1 /\ Fetches <= 1)

\* C10 as amended: every invocation makes at most one submission, never
\* repeated, and exactly one once it has the client; it makes between 1 and
\* 30 status polls when the submission succeeds and none when the
\* submission raises; and it makes at most one result fetch.
C10_OneSubmitBoundedPolls ==
  /\ Submissions <= 1
  /\ Fetches <= 1
  /\ Polls <= max_attempts
  /\ (Polls > 0 \/ Fetches > 0) => SubmissionOk
  /\ Done =>
       /\ (client # None) <=> (Submissions = 1)
       /\ SubmissionOk => Polls >= 1
       /\ (\A i \in 1..(Len(calls) - 1) : calls[i].out # "raised")

\* A rejected submission: one submission, no poll, no fetch.
C10_Witness ==
  /\ Done
  /\ Submissions = 1
  /\ FaultIn("start_query_execution")
  /\ Polls = 0
  /\ Fetches = 0
  /\ result = Returned(ErrorText(exc))

\* -------------------------------------------------------------------- C11
\* The statement the tool's template gives for the arguments of the call.
TemplateStatement ==
  CASE tool = "list_tables" -> <<"SHOW TABLES IN ", "drm_text2sql_db">>
    [] tool = "describe_table" -> <<"DESCRIBE ", "drm_text2sql_db", ".", args.table_name>>
    [] tool = "get_table_sample" ->
         <<"SELECT * FROM ", "drm_text2sql_db", ".", args.table_name, " LIMIT ",
           IF args.limit_given THEN ToString(args.limit) ELSE "10">>
    [] OTHER -> <<>>
IsWrapper == tool \in {"list_tables", "describe_table", "get_table_sample"}

\* C11: whatever came before, list_tables, describe_table and
\* get_table_sample each submit one statement (once the client is there),
\* the one their template gives - with limit 10 when none is given -, against
\* the fixed database and with the default destination.
C11_WrapperStatements ==
  IsWrapper =>
    /\ Submissions <= 1
    /\ (Done /\ client # None) => Submissions = 1
    /\ Submissions = 1 =>
         /\ request.QueryString = TemplateStatement
         /\ request.Database = "drm_text2sql_db"
         /\ request.OutputLocation = "s3://glab-drm-query-results/"

\* get_table_sample("orders") with no limit submitted
\* SELECT * FROM drm_text2sql_db.orders LIMIT 10.
C11_Witness ==
  /\ tool = "get_table_sample"
  /\ args = Args("orders", FALSE, 0)
  /\ Submissions = 1
  /\ pc = "poll"
  /\ client = _athena_client
  /\ request = [QueryString |-> <<"SELECT * FROM ", "drm_text2sql_db", ".", "orders",
                                  " LIMIT ", "10">>,
                Database |-> "drm_text2sql_db",
                OutputLocation |-> "s3://glab-drm-query-results/"]

\* -------------------------------------------------------------------- C13
\* C13: a SUCCEEDED invocation returns the "executed successfully but
\* returned no results" message exactly when the fetched result set has no
\* row at all; a header row (of column names) with no data row gives another
\* output, the report with the column names and a count of 0.
C13_NoResultsIffNoRows ==
  FetchedOk =>
    /\ (result = Returned(<<"Query executed successfully but returned no results.">>))
         <=> (Len(rows) = 0)
    /\ (result.kind = "returned" /\
        Contains(result.text, "Query executed successfully but returned no results."))
         => (Len(rows) = 0)
    /\ (Len(rows) = 1 /\ HeaderNamed(rows)) =>
         /\ result.kind = "returned"
         /\ result.text[1] = "Query executed successfully!\n\n"
         /\ SubSeq(result.text, 2, Len(rows[1].Data) * 2 + 1)
              = <<"Columns: ">> \o
                [i \in 1..(2 * Len(rows[1].Data) - 1) |->
                   IF i % 2 = 1 THEN rows[1].Data[(i + 1) \div 2].VarCharValue ELSE ", "]
         /\ StatedCount(result.text) = "0"

\* A result set with no row at all gave the no-results message.
C13_Witness ==
  /\ FetchedOk
  /\ rows = <<>>
  /\ status = "SUCCEEDED"
  /\ result = Returned(<<"Query executed successfully but returned no results.">>)

\* -------------------------------------------------------------------- C14
\* The first remote call of the invocation is a submission that raised.
SubmissionRejected ==
  /\ Len(calls) > 0
  /\ calls[1].op = "start_query_execution"
  /\ calls[1].out = "raised"

\* C14: when the remote service rejects the submission the invocation ends
\* at once with an error string: one submission attempt, no status poll, no
\* sleep and no result fetch.
C14_RejectedSubmission ==
  SubmissionRejected =>
    /\ Len(calls) = 1
    /\ Submissions = 1
    /\ Polls = 0
    /\ Fetches = 0
    /\ sleeps = 0
    /\ pc \in {"except", "done"}
    /\ Done => /\ result.kind = "returned"
               /\ result.text[1] = "Error: "
               /\ result.text[2] = exc.text
               /\ exc \in Faults

\* list_tables ended on a rejected submission.
C14_Witness ==
  /\ Done
  /\ tool = "list_tables"
  /\ SubmissionRejected
  /\ calls = <<Call("start_query_execution", "", "raised")>>
  /\ sleeps = 0
  /\ result = Returned(ErrorText(exc))

\* -------------------------------------------------------------------- C16
\* The pieces of the "Columns: " line: between "Columns: " and "\n\n".
ColumnsAt(text) == CHOOSE i \in DOMAIN text : text[i] = "Columns: "
ColumnsPart(text) == SubSeq(text, ColumnsAt(text) + 1, ResultsAt(text) - 2)
CommaJoined(line) == \A k \in 1..(Len(line) \div 2) : line[2 * k] = ", "
Min(a, b) == IF a < b THEN a ELSE b

\* C16: for a SUCCEEDED result set of a header row (of column names) and
\* N >= 0 data rows, the report lists the column names of row 0, states N as
\* the count (not the number of rows shown), and shows the first min(N, 10)
\* data rows in their order, each with its cells pipe-joined in column order.
C16_ReportContent ==
  (FetchedOk /\ Len(rows) >= 1 /\ HeaderNamed(rows)) =>
    /\ result.kind = "returned"
    /\ IsReport(result.text)
    /\ CommaJoined(ColumnsPart(result.text))
    /\ Cells(ColumnsPart(result.text))
         = [c \in 1..Len(rows[1].Data) |-> rows[1].Data[c].VarCharValue]
    /\ StatedCount(result.text) = ToString(DataRows)
    /\ Len(ListedRows(result.text)) = Min(DataRows, 10)
    /\ \A k \in 1..Min(DataRows, 10) :
         LET line == ListedRows(result.text)[k]
         IN  /\ WellJoined(line)
             /\ Cells(line) =
                  [c \in 1..Len(rows[k + 1].Data) |->
                     IF rows[k + 1].Data[c].present
                     THEN rows[k + 1].Data[c].VarCharValue ELSE "NULL"]

\* Twelve data rows of two columns: the count stated is 12, ten rows are
\* shown, the first "v1.1 | v1.2" and the tenth "v10.1 | v10.2".
C16_Witness ==
  /\ FetchedOk
  /\ DataRows = 12
  /\ result.kind = "returned"
  /\ ColumnsPart(result.text) = <<"col1", ", ", "col2">>
  /\ StatedCount(result.text) = "12"
  /\ Len(ListedRows(result.text)) = 10
  /\ ListedRows(result.text)[1] = <<"v1.1", " | ", "v1.2">>
  /\ ListedRows(result.text)[10] = <<"v10.1", " | ", "v10.2">>

\* -------------------------------------------------------------------- C17
\* The state the last status poll reported is SUCCEEDED.
SucceededSeen ==
  /\ Polls >= 1
  /\ PollAt(Polls).out = "terminal"
  /\ query_status.State = "SUCCEEDED"

\* C17: an invocation makes a result fetch exactly when the last status it
\* observed is SUCCEEDED, and makes it after all its status polls; after
\* FAILED, CANCELLED or a timeout no fetch is made.
C17_FetchIffSucceeded ==
  /\ Fetches >= 1 =>
       /\ Fetches = 1
       /\ SucceededSeen
       /\ calls[Len(calls)].op = "get_query_results"
       /\ \A i \in CallsOf("get_query_execution") : i < Len(calls)
  /\ Done => (SucceededSeen <=> Fetches = 1)
  /\ (Done /\ Polls >= 1 /\ query_status.State # "SUCCEEDED") => Fetches = 0

\* SUCCEEDED came at the 30th poll and the fetch followed it.
C17_Witness ==
  /\ Done
  /\ Polls = max_attempts
  /\ SucceededSeen
  /\ Fetches = 1
  /\ Len(calls) = max_attempts + 2
  /\ calls[Len(calls)].op = "get_query_results"

\* -------------------------------------------------------------------- C15
\* The steps of an invocation that is under way.
Step ==
  \/ get_athena_client
  \/ start_query_execution
  \/ get_query_execution
  \/ sleep
  \/ get_query_results
  \/ return_failed
  \/ return_cancelled
  \/ return_timeout
  \/ except_handler

\* One invocation: of execute_athena_query with the default destination, or
\* of a wrapper (describe_table and get_table_sample differ from list_tables
\* in the statement only).
OneInvocation ==
  /\ pc = "idle"
  /\ \/ \E q \in UserQueries : Begin("execute_athena_query", NoArgs, q, OUTPUT_LOCATION)
     \/ list_tables

NextOnce == OneInvocation \/ Step

\* One invocation in which every remote call, sleep and local step that can
\* be taken is taken in the end: each remote call returns or raises.
LiveSpec == Init /\ [][NextOnce]_vars /\ WF_vars(Step)

InProgress == pc \notin {"idle", "done"}

\* C15: whatever states the service reports (RUNNING and QUEUED for ever,
\* or a state outside the five of the enumeration, which counts as not
\* terminal), an invocation makes at most 30 status polls and at most 30
\* sleeps, and it ends.
C15_Terminates ==
  /\ [](Polls <= 30 /\ sleeps <= 30)
  /\ (InProgress ~> Done)

\* The service reported the unlisted state UNKNOWN at the 30th poll; the
\* invocation ended after 30 polls and 30 sleeps with the timeout message.
C15_Witness ==
  /\ Done
  /\ Polls = 30
  /\ sleeps = 30
  /\ query_status.State = "UNKNOWN"
  /\ result = Returned(TimeoutText("UNKNOWN"))

\* ------------------------------------------- invocations running together
\* Each thread calls one tool: t1 list_tables, t2 describe_table("orders").
ThreadQuery(t) == IF t = "t1" THEN ListTablesQuery ELSE DescribeQuery("orders")

\* What the service holds for a query: who submitted it, its statement and
\* destination, and its state.
RemoteQuery(t, q, loc, st) == [owner |-> t, stmt |-> q, dest |-> loc, state |-> st]

\* The rows the service gives for a statement once it has SUCCEEDED.
ResultFor(q) == IF q = ListTablesQuery THEN MakeRows(3, 1, {}) ELSE MakeRows(2, 2, {})

\* A remote call of a thread: the operation and the handle it names.
Used(op, h) == [op |-> op, id |-> h]

\* Mutant of HandleRead: query_execution_id is a module global, so a thread
\* reads the handle of the latest submission.
HandleRead_Global(t) == Len(remote)

\* The handle a thread passes to get_query_execution / get_query_results:
\* its own local query_execution_id.
HandleRead(t) == th_qid[t]

\* Mutant of RemoteAfterReturn: the branch stops the query before returning.
RemoteAfterReturn_Stop(r, h) == [r EXCEPT ![h].state = "CANCELLED"]

\* The queries of the service after a FAILED / CANCELLED / timeout branch
\* has returned for handle h: the branches send nothing to the service.
RemoteAfterReturn(r, h) == r

\* The thread returns `res` to its caller; its frame is gone.
ThreadReturn(t, res) ==
  /\ th_result' = [th_result EXCEPT ![t] = res]
  /\ th_pc' = [th_pc EXCEPT ![t] = "done"]
  /\ th_attempt' = [th_attempt EXCEPT ![t] = 0]
  /\ th_status' = [th_status EXCEPT ![t] = ""]

\* The host starts the thread's tool call and the call gets the client,
\* with no other thread inside get_athena_client meanwhile.
th_call(t) ==
  /\ th_pc[t] = "idle"
  /\ th_pc' = [th_pc EXCEPT ![t] = "submit"]
  /\ IF _athena_client = None
     THEN /\ _athena_client' = clientsCreated + 1
          /\ clientsCreated' = clientsCreated + 1
     ELSE UNCHANGED <<_athena_client, clientsCreated>>
  /\ th_client' = [th_client EXCEPT ![t] = _athena_client']
  /\ UNCHANGED <<th_new, th_qid, th_attempt, th_status, th_result, th_calls, remote>>
  /\ UNCHANGED seqVars

\* The host starts a tool call on the thread; the call enters
\* get_athena_client.
th_invoke(t) ==
  /\ th_pc[t] \in {"idle", "done"}
  /\ th_pc' = [th_pc EXCEPT ![t] = "check"]
  /\ UNCHANGED <<th_new, th_client, th_qid, th_attempt, th_status, th_result, th_calls,
                 remote, _athena_client, clientsCreated>>
  /\ UNCHANGED seqVars

\* if _athena_client is None
th_check(t) ==
  /\ th_pc[t] = "check"
  /\ th_pc' = [th_pc EXCEPT ![t] = IF _athena_client = None THEN "create" ELSE "load"]
  /\ UNCHANGED <<th_new, th_client, th_qid, th_attempt, th_status, th_result, th_calls,
                 remote, _athena_client, clientsCreated>>
  /\ UNCHANGED seqVars

\* boto3.client('athena', ...): a new client object.
th_create(t) ==
  /\ th_pc[t] = "create"
  /\ clientsCreated' = clientsCreated + 1
  /\ th_new' = [th_new EXCEPT ![t] = clientsCreated + 1]
  /\ th_pc' = [th_pc EXCEPT ![t] = "assign"]
  /\ UNCHANGED <<th_client, th_qid, th_attempt, th_status, th_result, th_calls, remote,
                 _athena_client>>
  /\ UNCHANGED seqVars

\* _athena_client = <the new client>
th_assign(t) ==
  /\ th_pc[t] = "assign"
  /\ _athena_client' = th_new[t]
  /\ th_pc' = [th_pc EXCEPT ![t] = "load"]
  /\ UNCHANGED <<th_new, th_client, th_qid, th_attempt, th_status, th_result, th_calls,
                 remote, clientsCreated>>
  /\ UNCHANGED seqVars

\* return _athena_client; client = get_athena_client()
th_load(t) ==
  /\ th_pc[t] = "load"
  /\ th_client' = [th_client EXCEPT ![t] = _athena_client]
  /\ th_pc' = [th_pc EXCEPT ![t] = "got_client"]
  /\ UNCHANGED <<th_new, th_qid, th_attempt, th_status, th_result, th_calls, remote,
                 _athena_client, clientsCreated>>
  /\ UNCHANGED seqVars

\* The rest of the call: it uses the local `client` and writes neither the
\* global nor another thread's frame.
th_rest(t) ==
  /\ th_pc[t] = "got_client"
  /\ th_pc' = [th_pc EXCEPT ![t] = "done"]
  /\ UNCHANGED <<th_new, th_client, th_qid, th_attempt, th_status, th_result, th_calls,
                 remote, _athena_client, clientsCreated>>
  /\ UNCHANGED seqVars

\* client.start_query_execution(...): the service gives a new handle, or
\* raises.
th_submit(t) ==
  /\ th_pc[t] = "submit"
  /\ \/ /\ remote' = Append(remote, RemoteQuery(t, ThreadQuery(t), OUTPUT_LOCATION,
                                                 "RUNNING"))
        /\ th_qid' = [th_qid EXCEPT ![t] = Len(remote) + 1]
        /\ th_calls' = [th_calls EXCEPT ![t] =
                          @ \cup {Used("start_query_execution", Len(remote) + 1)}]
        /\ th_attempt' = [th_attempt EXCEPT ![t] = 0]
        /\ th_pc' = [th_pc EXCEPT ![t] = LoopTest(0)]
        /\ UNCHANGED <<th_status, th_result>>
     \/ /\ \E f \in Faults : ThreadReturn(t, Handle("list_tables", f))
        /\ th_calls' = [th_calls EXCEPT ![t] =
                          @ \cup {Used("start_query_execution", NoHandle)}]
        /\ UNCHANGED <<remote, th_qid>>
  /\ UNCHANGED <<th_new, th_client, _athena_client, clientsCreated>>
  /\ UNCHANGED seqVars

\* client.get_query_execution(QueryExecutionId=query_execution_id) and the
\* break test.
th_poll(t) ==
  /\ th_pc[t] = "poll"
  /\ LET h == HandleRead(t)
     IN  \/ /\ th_calls' = [th_calls EXCEPT ![t] =
                              @ \cup {Used("get_query_execution", h)}]
            /\ th_status' = [th_status EXCEPT ![t] = remote[h].state]
            /\ th_pc' = [th_pc EXCEPT ![t] =
                           IF IsTerminal(remote[h].state) THEN "decide" ELSE "sleep"]
            /\ UNCHANGED <<th_result, th_attempt>>
         \/ /\ \E f \in Faults : ThreadReturn(t, Handle("list_tables", f))
            /\ th_calls' = [th_calls EXCEPT ![t] =
                              @ \cup {Used("get_query_execution", h)}]
  /\ UNCHANGED <<th_new, th_client, th_qid, remote, _athena_client, clientsCreated>>
  /\ UNCHANGED seqVars

\* time.sleep(1); attempt += 1
th_sleep(t) ==
  /\ th_pc[t] = "sleep"
  /\ th_attempt' = [th_attempt EXCEPT ![t] = @ + 1]
  /\ th_pc' = [th_pc EXCEPT ![t] = LoopTest(th_attempt[t] + 1)]
  /\ UNCHANGED <<th_new, th_client, th_qid, th_status, th_result, th_calls, remote,
                 _athena_client, clientsCreated>>
  /\ UNCHANGED seqVars

\* if status == 'SUCCEEDED': get_query_results and the report.
th_fetch(t) ==
  /\ th_pc[t] = "decide"
  /\ IsSucceeded(th_status[t])
  /\ LET h == HandleRead(t)
     IN  \/ /\ ThreadReturn(t, Returned(ReportText(ResultFor(remote[h].stmt))))
            /\ th_calls' = [th_calls EXCEPT ![t] =
                              @ \cup {Used("get_query_results", h)}]
         \/ /\ \E f \in Faults : ThreadReturn(t, Handle("list_tables", f))
            /\ th_calls' = [th_calls EXCEPT ![t] =
                              @ \cup {Used("get_query_results", h)}]
  /\ UNCHANGED <<th_new, th_client, th_qid, remote, _athena_client, clientsCreated>>
  /\ UNCHANGED seqVars

\* The FAILED, CANCELLED and timeout branches.
th_return(t) ==
  /\ th_pc[t] = "decide"
  /\ ~IsSucceeded(th_status[t])
  /\ ThreadReturn(t, Returned(
       IF th_status[t] = "FAILED" THEN FailedText(StatusDict("FAILED", FALSE, ""))
       ELSE IF th_status[t] = "CANCELLED" THEN CancelledText
       ELSE TimeoutText(th_status[t])))
  /\ remote' = RemoteAfterReturn(remote, th_qid[t])
  /\ UNCHANGED <<th_new, th_client, th_qid, th_calls, _athena_client, clientsCreated>>
  /\ UNCHANGED seqVars

\* The service ends a running query on its own.
service_finish ==
  /\ \E h \in DOMAIN remote, st \in TerminalStates :
       /\ remote[h].state = "RUNNING"
       /\ remote' = [remote EXCEPT ![h].state = st]
  /\ UNCHANGED <<th_pc, th_new, th_client, th_qid, th_attempt, th_status, th_result,
                 th_calls, _athena_client, clientsCreated>>
  /\ UNCHANGED seqVars

\* Tool calls that the host runs at the same time, up to the point where
\* each has its client; a thread is given call after call.
ClientNext ==
  \/ \E t \in Threads : th_invoke(t)
  \/ \E t \in Threads : th_check(t)
  \/ \E t \in Threads : th_create(t)
  \/ \E t \in Threads : th_assign(t)
  \/ \E t \in Threads : th_load(t)
  \/ \E t \in Threads : th_rest(t)

ClientSpec == Init /\ [][ClientNext]_vars

ConcNext ==
  \/ \E t \in Threads : th_call(t)
  \/ \E t \in Threads : th_submit(t)
  \/ \E t \in Threads : th_poll(t)
  \/ \E t \in Threads : th_sleep(t)
  \/ \E t \in Threads : th_fetch(t)
  \/ \E t \in Threads : th_return(t)
  \/ service_finish

\* Two tool calls that the host runs at the same time, and the service.
ConcSpec == Init /\ [][ConcNext]_vars

\* --------------------------------------------------------- claims C12, C18, C19
\* The client objects that the threads' calls have been given.
ClientsInUse == {th_client[t] : t \in {u \in Threads : th_client[u] # None}}

\* C12 (as stated): however the calls interleave inside get_athena_client,
\* the client is created at most once and every call uses the same client
\* object.
C12_ClientCreatedOnce ==
  /\ clientsCreated <= 1
  /\ Cardinality(ClientsInUse) <= 1

\* The handles of the polls and fetches a thread has made.
HandlesUsed(t) ==
  {c.id : c \in {d \in th_calls[t] : d.op \in {"get_query_execution", "get_query_results"}}}

\* The string a thread's call returns for its own query: the report of its
\* own statement's rows, the failure or the cancellation of its own handle,
\* the timeout message, or the text of a fault.
OwnOutcomes(t) ==
  LET own == remote[th_qid[t]]
  IN  {Returned(TimeoutText("RUNNING"))}
        \cup {Handle("list_tables", f) : f \in Faults}
        \cup (IF own.state = "SUCCEEDED"
              THEN {Returned(ReportText(ResultFor(ThreadQuery(t))))} ELSE {})
        \cup (IF own.state = "FAILED"
              THEN {Returned(FailedText(StatusDict("FAILED", FALSE, "")))} ELSE {})
        \cup (IF own.state = "CANCELLED" THEN {Returned(CancelledText)} ELSE {})

\* C18: with two calls running together, every poll and fetch of a call
\* names the handle that the call's own submission returned, a query that
\* the service holds for that call's statement and destination; and the
\* string the call returns is an outcome of its own query.
C18_OwnHandleOnly ==
  \A t \in Threads :
    /\ HandlesUsed(t) \subseteq {th_qid[t]} \ {NoHandle}
    /\ \A h \in HandlesUsed(t) :
         remote[h] = RemoteQuery(t, ThreadQuery(t), OUTPUT_LOCATION, remote[h].state)
    /\ (th_pc[t] = "done" /\ th_qid[t] # NoHandle) => th_result[t] \in OwnOutcomes(t)

\* Both calls have returned the report of their own statement, and the call
\* that submitted first holds the older handle.
C18_Witness ==
  /\ th_pc = [t \in Threads |-> "done"]
  /\ th_qid["t1"] = 1
  /\ th_qid["t2"] = 2
  /\ HandlesUsed("t1") = {1}
  /\ HandlesUsed("t2") = {2}
  /\ th_result["t1"] = Returned(ReportText(ResultFor(ListTablesQuery)))
  /\ th_result["t2"] = Returned(ReportText(ResultFor(DescribeQuery("orders"))))

\* The remote operations the orchestrator sends.
RemoteOps == {"start_query_execution", "get_query_execution", "get_query_results"}

\* C19: the orchestrator sends only submissions, polls and fetches, and no
\* step of a tool call changes the state of a query the service holds (the
\* timeout branch included): a query's state changes only when the service
\* ends it.
C19_NoCancelSent ==
  /\ [](\A t \in Threads : \A c \in th_calls[t] : c.op \in RemoteOps)
  /\ [][th_pc' # th_pc =>
          \A h \in DOMAIN remote : remote'[h].state = remote[h].state]_vars

\* A call has returned the timeout message after 30 polls and its remote
\* query is still RUNNING.
C19_Witness ==
  \E t \in Threads :
    /\ th_pc[t] = "done"
    /\ th_result[t] = Returned(TimeoutText("RUNNING"))
    /\ th_qid[t] # NoHandle
    /\ remote[th_qid[t]].state = "RUNNING"
====
